---- MODULE Spec2Model ----
(***************************************************************************)
(* A model of the leaderboard JSON API (src/main.py): the brace-balanced   *)
(* scanner _brace_cut, the anchor search cut_all_json_blocks, the          *)
(* normalisation and sort of parse_seasons, and the three request          *)
(* handlers.                                                               *)
(*                                                                         *)
(* Text is a sequence of one-character strings.  Python indices are        *)
(* 0-based and are kept 0-based here: the character at Python index i of   *)
(* text is text[i + 1].                                                    *)
(***************************************************************************)
EXTENDS Integers, Sequences, FiniteSets, TLC

VARIABLES
    text, start_idx, cut,         \* one call of _brace_cut and its outcome
    raw, obj, form, out,          \* one call of cut_all_json_blocks: the
                                  \* document, the object it embeds (if it
                                  \* was built from one) and how, the outcome
    data, rec,                    \* one parsed object and its normalisation
    pc, route, season_no,         \* one request: where its handler is, its
    fetches, page, html,          \* route and path argument, the GETs sent,
    seasons, response             \* the upstream page (its items) and the
                                  \* outcome of fetch_html, the outcome of
                                  \* parse_seasons, the response

cutVars == <<text, start_idx, cut>>
blockVars == <<raw, obj, form, out>>
normVars == <<data, rec>>
reqVars == <<pc, route, season_no, fetches, page, html, seasons, response>>
vars == <<text, start_idx, cut, raw, obj, form, out, data, rec,
          pc, route, season_no, fetches, page, html, seasons, response>>

(***************************************************************************)
(* Bounds of the model.                                                    *)
(***************************************************************************)
MaxLen == 5          \* longest text handed to _brace_cut on its own
MaxFrags == 4        \* most fragments a scanned document is built from
MaxStr == 2          \* most items in the string value of an embedded object
MaxSeason == 3       \* longest season text built from single characters
MaxItems == 2        \* most items of an upstream page

(***************************************************************************)
(* Small helpers.                                                          *)
(***************************************************************************)
SeqsUpTo(S, n) == UNION {[1..k -> S] : k \in 0..n}

MinOf(S) == CHOOSE x \in S : \A y \in S : x <= y

\* The outcome of a call: a returned value, or the exception it raised.
Pending == [err |-> "pending", val |-> <<>>]
Return(v) == [err |-> "none", val |-> v]
Raise(e) == [err |-> e, val |-> <<>>]

\* The rest of a function after a call: an exception of the call leaves the
\* function, a returned value goes on to Rest.
Then(r, Rest(_)) == IF r.err # "none" THEN r ELSE Rest(r.val)

\* text[a:b] of Python (0-based, b exclusive).
Slice(t, a, b) == SubSeq(t, a + 1, b)

\* The concatenation of a sequence of texts.
RECURSIVE Flatten(_)
Flatten(ss) == IF ss = <<>> THEN <<>> ELSE Head(ss) \o Flatten(Tail(ss))

\* The elements of a finite set of integers in increasing order.
RECURSIVE Increasing(_)
Increasing(S) ==
    IF S = {} THEN <<>> ELSE <<MinOf(S)>> \o Increasing(S \ {MinOf(S)})

\* The variables of the layers a specification does not exercise.
IdleCut == text = <<>> /\ start_idx = 0 /\ cut = Pending
IdleBlocks == raw = <<>> /\ obj = <<>> /\ form = "none" /\ out = Pending
IdleNorm == data = <<>> /\ rec = Pending
IdleRequest ==
    /\ pc = "off" /\ route = "none" /\ season_no = 0 /\ fetches = 0
    /\ page = <<>> /\ html = Pending /\ seasons = Pending
    /\ response = [status |-> 0, body |-> <<>>]

(***************************************************************************)
(* _brace_cut (src/main.py 19-41).                                         *)
(***************************************************************************)
\* The characters texts are built from: the two braces, the quote, the
\* backslash and one character that means nothing to the scanner.
CutChars == {"{", "}", "\"", "\\", "z"}

\* Lines 21-23: the scanner's state before the first character.  i is the
\* index of the last iteration run, ret says that it ran the return of line
\* 40.
CutStart ==
    [i |-> -1, depth |-> 0, in_str |-> FALSE, escape |-> FALSE, ret |-> FALSE]

\* The loop body with the escape flag never set (a backslash is an
\* ordinary character).
LoopBodyNoEscape(st, ch) ==
    LET s1 == IF ch = "\"" THEN [st EXCEPT !.in_str = ~st.in_str] ELSE st
    IN  IF s1.in_str THEN s1
        ELSE IF ch = "{" THEN [s1 EXCEPT !.depth = @ + 1]
        ELSE IF ch = "}"
             THEN [s1 EXCEPT !.depth = @ - 1, !.ret = (s1.depth - 1 = 0)]
        ELSE s1

\* The loop body with no string tracking (every brace counts).
LoopBodyNoString(st, ch) ==
    IF st.escape THEN [st EXCEPT !.escape = FALSE]
    ELSE IF ch = "\\" THEN [st EXCEPT !.escape = TRUE]
    ELSE IF ch = "{" THEN [st EXCEPT !.depth = @ + 1]
    ELSE IF ch = "}"
         THEN [st EXCEPT !.depth = @ - 1, !.ret = (st.depth - 1 = 0)]
    ELSE st

\* Lines 25-40: one iteration of the loop on character ch.
LoopBody(st, ch) ==
    IF st.escape THEN [st EXCEPT !.escape = FALSE]
    ELSE IF ch = "\\" THEN [st EXCEPT !.escape = TRUE]
    ELSE LET s1 == IF ch = "\"" THEN [st EXCEPT !.in_str = ~st.in_str] ELSE st
         IN  IF s1.in_str THEN s1
             ELSE IF ch = "{" THEN [s1 EXCEPT !.depth = @ + 1]
             ELSE IF ch = "}"
                  THEN [s1 EXCEPT !.depth = @ - 1, !.ret = (s1.depth - 1 = 0)]
             ELSE s1

\* Lines 24-40: the iterations for i in range(lo, hi) in their order, from
\* state st, none being run once one has returned.  The range is halved
\* only to keep the evaluation shallow on long texts.
RECURSIVE brace_loop(_, _, _, _)
brace_loop(t, lo, hi, st) ==
    IF lo >= hi THEN st
    ELSE IF hi = lo + 1
         THEN (IF st.ret THEN st ELSE [LoopBody(st, t[lo + 1]) EXCEPT !.i = lo])
    ELSE LET mid == (lo + hi) \div 2
             left == brace_loop(t, lo, mid, st)
         IN  IF left.ret THEN left ELSE brace_loop(t, mid, hi, left)

\* Lines 19-41.  UnbalancedBraces is the ValueError of line 41.
_brace_cut(t, start) ==
    LET st == brace_loop(t, start, Len(t), CutStart)
    IN  IF st.ret THEN Return(Slice(t, start, st.i + 1))
        ELSE Raise("UnbalancedBraces")

(***************************************************************************)
(* Specification SpecCut: one call of _brace_cut on a text and an index    *)
(* at which the text has an opening brace (the callers, lines 57 and 67,   *)
(* pass the offset of an anchor, which begins with one).                   *)
(***************************************************************************)
InitCut ==
    /\ text \in SeqsUpTo(CutChars, MaxLen)
    /\ start_idx \in 0..(MaxLen - 1)
    /\ start_idx < Len(text)
    /\ text[start_idx + 1] = "{"
    /\ cut = Pending
    /\ IdleBlocks
    /\ IdleNorm
    /\ IdleRequest

CallBraceCut ==
    /\ cut = Pending
    /\ cut' = _brace_cut(text, start_idx)
    /\ UNCHANGED <<text, start_idx, blockVars, normVars, reqVars>>

NextCut == CallBraceCut

SpecCut == InitCut /\ [][NextCut]_vars

(***************************************************************************)
(* What the scanner is to compute, stated on positions of the text rather  *)
(* than by a left-to-right pass.                                           *)
(***************************************************************************)
\* The character at index j is consumed by a backslash: the character
\* before it (not before index s) is a backslash that was not itself consumed.
RECURSIVE Consumed(_, _, _)
Consumed(t, s, j) == j > s /\ t[j] = "\\" /\ ~Consumed(t, s, j - 1)

\* The quotes between s and j that toggle the string state.
Quotes(t, s, j) == {k \in s..j : t[k + 1] = "\"" /\ ~Consumed(t, s, k)}

\* After the character at index j the scan is inside a quoted string.
InString(t, s, j) == Cardinality(Quotes(t, s, j)) % 2 = 1

\* A brace c at index j that counts: not consumed, not inside a string.
Counts(t, s, j, c) ==
    t[j + 1] = c /\ ~Consumed(t, s, j) /\ ~InString(t, s, j)

DepthAfter(t, s, j) ==
    Cardinality({k \in s..j : Counts(t, s, k, "{")})
        - Cardinality({k \in s..j : Counts(t, s, k, "}")})

\* The closing braces at which the depth is back to 0.
Closers(t, s) ==
    {j \in s..(Len(t) - 1) : Counts(t, s, j, "}") /\ DepthAfter(t, s, j) = 0}

ExpectedCut(t, s) ==
    IF Closers(t, s) = {} THEN Raise("UnbalancedBraces")
    ELSE Return(Slice(t, s, MinOf(Closers(t, s)) + 1))

\* C1: for a text with '{' at start_idx, _brace_cut returns the substring
\* from start_idx to the first '}' at which the depth (counting only braces
\* that are outside quoted strings and not consumed by a backslash) is back
\* to 0, and raises the unbalanced-braces error when there is no such '}'.
C1_CutIsFirstBalancedClose ==
    cut # Pending => cut = ExpectedCut(text, start_idx)

\* A call that returned before the end of the text, past a '}' that follows
\* a backslash.
C1_Witness ==
    /\ cut.err = "none"
    /\ start_idx + Len(cut.val) < Len(text)
    /\ \E j \in start_idx..(start_idx + Len(cut.val) - 2) :
          /\ text[j + 1] = "}"
          /\ Consumed(text, start_idx, j)

\* The number of braces c of block b that are not consumed by a backslash.
UnescapedCount(b, c) ==
    Cardinality({j \in 0..(Len(b) - 1) : b[j + 1] = c /\ ~Consumed(b, 0, j)})

\* The number of braces c of block b that count for the nesting.
CountingCount(b, c) ==
    Cardinality({j \in 0..(Len(b) - 1) : Counts(b, 0, j, c)})

\* C2 as stated: every returned block has as many unescaped '{' as
\* unescaped '}'.
C2_UnescapedBracesBalanced ==
    cut.err = "none" =>
        UnescapedCount(cut.val, "{") = UnescapedCount(cut.val, "}")

\* C2 as amended: every returned block has as many '{' as '}' among the
\* braces that are neither consumed by a backslash nor inside a quoted
\* string; the scanner raises rather than return anything else.
C2_CountingBracesBalanced ==
    /\ cut.err = "none" =>
          /\ CountingCount(cut.val, "{") = CountingCount(cut.val, "}")
          /\ CountingCount(cut.val, "{") >= 1
    /\ cut.err \in {"pending", "none", "UnbalancedBraces"}

\* A returned block with a brace inside a quoted string.
C2_Witness ==
    /\ cut.err = "none"
    /\ \E j \in 0..(Len(cut.val) - 1) :
          /\ cut.val[j + 1] \in {"{", "}"}
          /\ InString(cut.val, 0, j)

(***************************************************************************)
(* cut_all_json_blocks (src/main.py 43-75).                                *)
(***************************************************************************)
\* Line 54: the literal anchor {"success"
LitAnchor == <<"{", "\"", "s", "u", "c", "c", "e", "s", "s", "\"">>

\* Line 64: the escaped anchor {\"success\"
EscAnchor ==
    <<"{", "\\", "\"", "s", "u", "c", "c", "e", "s", "s", "\\", "\"">>

\* pat occurs in t at index i.
OccursAt(t, pat, i) ==
    /\ i + Len(pat) <= Len(t)
    /\ t[i + 1] = pat[1]
    /\ SubSeq(t, i + 1, i + Len(pat)) = pat

\* str.find(pat, idx): the lowest index >= idx at which pat occurs, or -1.
find(t, pat, idx) ==
    LET hits == {i \in idx..(Len(t) - Len(pat)) : OccursAt(t, pat, i)}
    IN  IF hits = {} THEN -1 ELSE MinOf(hits)

HexDigits == {"c", "e"}

\* Line 69, bytes(cut, "utf-8").decode("unicode_escape"), from index i on,
\* for the ASCII characters of the model: \" and \\ decode to the second
\* character, \u takes four hex digits (the decoded character is written
\* "U+" and its digits) and is an error without them, a backslash before any
\* other character of the model ({ } s c e z :) is kept with it, and a
\* backslash that ends the text is an error.
RECURSIVE unicode_escape(_, _, _)
unicode_escape(t, i, acc) ==
    IF i >= Len(t) THEN Return(acc)
    ELSE IF t[i + 1] # "\\" THEN unicode_escape(t, i + 1, Append(acc, t[i + 1]))
    ELSE IF i + 1 >= Len(t) THEN Raise("UnicodeDecodeError")
    ELSE IF t[i + 2] \in {"\"", "\\"}
         THEN unicode_escape(t, i + 2, Append(acc, t[i + 2]))
    ELSE IF t[i + 2] = "u"
         THEN IF /\ i + 6 <= Len(t)
                 /\ \A k \in (i + 3)..(i + 6) : t[k] \in HexDigits
              THEN unicode_escape(t, i + 6,
                                  acc \o <<"U+">> \o SubSeq(t, i + 3, i + 6))
              ELSE Raise("UnicodeDecodeError")
    ELSE unicode_escape(t, i + 2, acc \o <<"\\", t[i + 2]>>)

\* The search resuming past the end of the block just cut.
ResumePastBlock(i, block) == i + Len(block)

\* Lines 59 and 71: idx = i + 1.
Resume(i, block) == i + 1

\* Lines 52-59 and 62-71: one of the two while loops, from idx on, appending
\* to blocks; unescape says whether the cut is decoded (line 69).  An
\* exception of _brace_cut or of the decoding ends the call.
RECURSIVE scan(_, _, _, _, _)
scan(t, pat, unescape, idx, blocks) ==
    LET i == find(t, pat, idx)
    IN  IF i = -1 THEN Return(blocks)
        ELSE Then(_brace_cut(t, i), LAMBDA c :
             Then(IF unescape THEN unicode_escape(c, 0, <<>>) ELSE Return(c),
                  LAMBDA b :
             scan(t, pat, unescape, Resume(i, c), Append(blocks, b))))

\* Lines 43-75.  NoBlocksFound is the ValueError of line 74.
cut_all_json_blocks(t) ==
    Then(scan(t, LitAnchor, FALSE, 0, <<>>), LAMBDA plain :
    Then(scan(t, EscAnchor, TRUE, 0, plain), LAMBDA blocks :
    IF blocks = <<>> THEN Raise("NoBlocksFound") ELSE Return(blocks)))

(***************************************************************************)
(* Specification SpecBlocks: one call of cut_all_json_blocks, on a document*)
(* put together from anchors and single characters, or on a document that  *)
(* embeds one JSON object, literally or backslash-escaped inside a string. *)
(***************************************************************************)
DocFrags ==
    {LitAnchor, EscAnchor, <<"{">>, <<"}">>, <<"\"">>, <<"\\">>, <<"u">>}

FragDocs == {Flatten(fs) : fs \in SeqsUpTo(DocFrags, MaxFrags)}

\* The pieces of a JSON string's content: a plain character, a brace, an
\* escaped quote, an escaped backslash.
StrItems == {<<"z">>, <<"{">>, <<"}">>, <<"\\", "\"">>, <<"\\", "\\">>}

JsonValues ==
    {<<"1">>, <<"{", "}">>}
        \cup {<<"\"">> \o Flatten(is) \o <<"\"">> : is \in SeqsUpTo(StrItems, MaxStr)}

\* The JSON objects {"success":v}.
Objects == {LitAnchor \o <<":">> \o v \o <<"}">> : v \in JsonValues}

\* The text of t as it stands inside a string: quotes and backslashes
\* escaped.
RECURSIVE Escaped(_)
Escaped(t) ==
    IF t = <<>> THEN <<>>
    ELSE (IF Head(t) \in {"\"", "\\"} THEN <<"\\", Head(t)>> ELSE <<Head(t)>>)
            \o Escaped(Tail(t))

\* The document that embeds object o in form f.
Embedding(o, f) ==
    IF f = "literal" THEN <<"z">> \o o \o <<"z">>
    ELSE <<"z", "\"">> \o Escaped(o) \o <<"\"", "z">>

InitBlocks ==
    /\ \/ /\ raw \in FragDocs
          /\ obj = <<>>
          /\ form = "fragments"
       \/ /\ obj \in Objects
          /\ form \in {"literal", "escaped"}
          /\ raw = Embedding(obj, form)
    /\ out = Pending
    /\ IdleCut
    /\ IdleNorm
    /\ IdleRequest

CallCutAll ==
    /\ out = Pending
    /\ form # "none"
    /\ out' = cut_all_json_blocks(raw)
    /\ UNCHANGED <<raw, obj, form, cutVars, normVars, reqVars>>

NextBlocks == CallCutAll

SpecBlocks == InitBlocks /\ [][NextBlocks]_vars

\* The offsets at which an anchor occurs in the document.
Occurrences(pat) == {i \in 0..(Len(raw) - 1) : OccursAt(raw, pat, i)}

\* The blocks at the occurrences of both anchors: the literal ones first in
\* increasing offset, then the escaped ones in increasing offset, decoded.
ExpectedBlocks ==
    LET lit == Increasing(Occurrences(LitAnchor))
        esc == Increasing(Occurrences(EscAnchor))
    IN  [k \in 1..(Len(lit) + Len(esc)) |->
            IF k <= Len(lit) THEN _brace_cut(raw, lit[k]).val
            ELSE unicode_escape(_brace_cut(raw, esc[k - Len(lit)]).val,
                                0, <<>>).val]

\* C3: when cut_all_json_blocks returns, it returns one block per occurrence
\* of the literal anchor and one per occurrence of the escaped anchor (an
\* anchor inside a block already cut included), the literal ones first in
\* increasing offset, then the escaped ones in increasing offset, only these
\* decoded; the result is never empty, and the call raises the
\* no-blocks-found error when, and only when, neither anchor occurs.
C3_OneBlockPerAnchor ==
    /\ out.err = "none" => out.val = ExpectedBlocks /\ out.val # <<>>
    /\ out # Pending =>
          ((Occurrences(LitAnchor) \cup Occurrences(EscAnchor) = {})
              <=> out.err = "NoBlocksFound")

\* A returned result with a literal block and, inside it, an escaped anchor
\* that gave a block of its own.
C3_Witness ==
    /\ out.err = "none"
    /\ Len(out.val) >= 2
    /\ Occurrences(LitAnchor) # {}
    /\ \E i \in Occurrences(EscAnchor) :
          /\ i > MinOf(Occurrences(LitAnchor))
          /\ i < MinOf(Occurrences(LitAnchor)) + Len(out.val[1])

\* C8: for every JSON object that begins with {"success", the document that
\* embeds it backslash-escaped inside a string gives what the document that
\* embeds it literally gives: the cut of the escaped text, decoded, is the
\* object's text.
C8_EscapedEmbeddingRecoversObject ==
    (form = "escaped" /\ out # Pending) =>
        /\ out = cut_all_json_blocks(Embedding(obj, "literal"))
        /\ out = Return(<<obj>>)

(***************************************************************************)
(* JSON values as json.loads (src/main.py 85) gives them.  A value is a    *)
(* record with a tag t, the characters s of a string and the number n of   *)
(* an int or a bool; null and Python's None are the same value.  A parsed  *)
(* object is a function from its keys to values.                           *)
(***************************************************************************)
JNull == [t |-> "null", s |-> <<>>, n |-> 0]
JNum(k) == [t |-> "num", s |-> <<>>, n |-> k]
JStr(cs) == [t |-> "str", s |-> cs, n |-> 0]
JTrue == [t |-> "bool", s |-> <<>>, n |-> 1]

\* A key the object does not have (never a value of an object).
Absent == [t |-> "absent", s |-> <<>>, n |-> 0]

\* The object with the given (key, value) pairs, the absent ones left out.
Object(pairs) ==
    LET present == {i \in DOMAIN pairs : pairs[i][2] # Absent}
    IN  [k \in {pairs[i][1] : i \in present} |->
            pairs[CHOOSE i \in present : pairs[i][1] = k][2]]

\* dict.get(k): the value, or None.
Get(d, k) == IF k \in DOMAIN d THEN d[k] ELSE JNull

(***************************************************************************)
(* The derivation of seasonNumber (src/main.py 84-96).                     *)
(***************************************************************************)
Whitespace == {" ", "\t", "\n"}

DigitChars == <<"0", "1", "2", "3", "4", "5", "6", "7", "8", "9">>

IsDigit(c) == \E d \in 1..10 : DigitChars[d] = c

DigitValue(c) == (CHOOSE d \in 1..10 : DigitChars[d] = c) - 1

\* str(n), as the f-string of line 150 formats an int.
RECURSIVE Str(_)
Str(k) ==
    IF k < 0 THEN <<"-">> \o Str(-k)
    ELSE IF k < 10 THEN <<DigitChars[k + 1]>>
    ELSE Str(k \div 10) \o <<DigitChars[(k % 10) + 1]>>

\* str.split(): the maximal runs of non-whitespace characters, in order;
\* cur is the run being read, toks the runs read.
RECURSIVE split(_, _, _)
split(t, cur, toks) ==
    IF t = <<>> THEN (IF cur = <<>> THEN toks ELSE Append(toks, cur))
    ELSE IF Head(t) \in Whitespace
         THEN split(Tail(t), <<>>, IF cur = <<>> THEN toks ELSE Append(toks, cur))
    ELSE split(Tail(t), Append(cur, Head(t)), toks)

\* The digits and underscores int() accepts after the sign: digits, with
\* single underscores between them.
IsIntBody(b) ==
    /\ b # <<>>
    /\ \A i \in 1..Len(b) : IsDigit(b[i]) \/ b[i] = "_"
    /\ IsDigit(b[1]) /\ IsDigit(b[Len(b)])
    /\ \A i \in 1..(Len(b) - 1) : ~(b[i] = "_" /\ b[i + 1] = "_")

RECURSIVE IntBodyValue(_, _)
IntBodyValue(b, acc) ==
    IF b = <<>> THEN acc
    ELSE IF Head(b) = "_" THEN IntBodyValue(Tail(b), acc)
    ELSE IntBodyValue(Tail(b), 10 * acc + DigitValue(Head(b)))

\* int(tok) on a token without whitespace: the int, or ValueError.
int(tok) ==
    LET signed == tok # <<>> /\ Head(tok) \in {"-", "+"}
        body == IF signed THEN Tail(tok) ELSE tok
    IN  IF ~IsIntBody(body) THEN Raise("ValueError")
        ELSE Return(IF signed /\ Head(tok) = "-"
                    THEN 0 - IntBodyValue(body, 0)
                    ELSE IntBodyValue(body, 0))

\* The expression with the first token taken.
IntOfFirstToken(season_text) ==
    LET toks == split(season_text, <<>>, <<>>)
    IN  IF toks = <<>> THEN Raise("IndexError") ELSE int(toks[1])

\* Line 92: int(season_text.split()[-1]); [-1] of an empty list raises
\* IndexError.
IntOfLastToken(season_text) ==
    LET toks == split(season_text, <<>>, <<>>)
    IN  IF toks = <<>> THEN Raise("IndexError") ELSE int(toks[Len(toks)])

\* Lines 87-94: season_num; the try of line 91 catches every Exception.
season_num(d) ==
    LET season_text == Get(d, "season")
    IN  IF season_text.t = "str"
        THEN LET r == IntOfLastToken(season_text.s)
             IN  IF r.err = "none" THEN JNum(r.val) ELSE JNull
        ELSE JNull

\* A record built anew from the season and its number only.
AttachToFresh(d, num) ==
    [k \in {"season", "seasonNumber"} |->
        IF k = "seasonNumber" THEN num ELSE Get(d, k)]

\* Line 95: data["seasonNumber"] = season_num.
Attach(d, num) ==
    [k \in DOMAIN d \cup {"seasonNumber"} |->
        IF k = "seasonNumber" THEN num ELSE d[k]]

\* Lines 85-96 for one parsed object: the record appended to seasons.
normalize(d) == Attach(d, season_num(d))

(***************************************************************************)
(* Specification SpecNorm: the normalisation of one parsed object.         *)
(***************************************************************************)
SeasonChars == {"S", " ", "7", "0", "-"}

\* f"Season {n}".
SeasonLabel(k) == <<"S", "e", "a", "s", "o", "n", " ">> \o Str(k)

SeasonTexts == SeqsUpTo(SeasonChars, MaxSeason) \cup {SeasonLabel(7)}

InitNorm ==
    /\ \E success \in {Absent, JTrue},
          season \in {Absent, JNull, JNum(7)} \cup {JStr(cs) : cs \in SeasonTexts},
          seasonNumber \in {Absent, JNum(5)} :
          data = Object(<< <<"success", success>>, <<"season", season>>,
                           <<"seasonNumber", seasonNumber>> >>)
    /\ rec = Pending
    /\ IdleCut
    /\ IdleBlocks
    /\ IdleRequest

CallNormalize ==
    /\ rec = Pending
    /\ rec' = Return(normalize(data))
    /\ UNCHANGED <<data, cutVars, blockVars, reqVars>>

NextNorm == CallNormalize

SpecNorm == InitNorm /\ [][NextNorm]_vars

\* The last whitespace-separated token of cs, stated on positions: it ends at
\* the last character that is not whitespace and begins after the last
\* whitespace before that; <<>> when cs has no such character.
LastToken(cs) ==
    LET inked == {i \in 1..Len(cs) : cs[i] \notin Whitespace}
    IN  IF inked = {} THEN <<>>
        ELSE LET e == CHOOSE i \in inked : \A j \in inked : j <= i
                 b == CHOOSE i \in 1..e :
                        /\ \A j \in i..e : j \in inked
                        /\ i = 1 \/ (i - 1) \notin inked
             IN  SubSeq(cs, b, e)

\* C9: deriving seasonNumber never raises; seasonNumber is the integer
\* parsed from the last whitespace-separated token of season when season is
\* a string whose last token parses as an integer, and null when season is
\* missing, is not a string, is empty or all whitespace, or has a last token
\* that is not an integer.
C9_SeasonNumberFromLastToken ==
    rec # Pending =>
        /\ rec.err = "none"
        /\ LET season == Get(data, "season")
               tok == LastToken(season.s)
           IN  rec.val["seasonNumber"] =
                   IF season.t = "str" /\ tok # <<>> /\ int(tok).err = "none"
                   THEN JNum(int(tok).val)
                   ELSE JNull

\* A season of several tokens whose last one is the integer 7 and whose
\* first one is not an integer.
C9_Witness ==
    /\ rec.err = "none"
    /\ rec.val["seasonNumber"] = JNum(7)
    /\ Len(split(data["season"].s, <<>>, <<>>)) >= 2
    /\ int(split(data["season"].s, <<>>, <<>>)[1]).err # "none"

\* C10 as stated: every key of the parsed object is in the record with its
\* original value, and the record differs from the object only by the
\* attached seasonNumber.
C10_EveryKeyKeepsItsValue ==
    rec.err = "none" =>
        /\ \A k \in DOMAIN data : k \in DOMAIN rec.val /\ rec.val[k] = data[k]
        /\ DOMAIN rec.val = DOMAIN data \cup {"seasonNumber"}

\* C10 as amended: every key of the parsed object other than seasonNumber is
\* in the record with its original value, the record has no other key than
\* those and seasonNumber, and its seasonNumber is the derived one (which
\* replaces a seasonNumber the object came with).
C10_EveryOtherKeyKeepsItsValue ==
    rec.err = "none" =>
        /\ \A k \in DOMAIN data \ {"seasonNumber"} :
              k \in DOMAIN rec.val /\ rec.val[k] = data[k]
        /\ DOMAIN rec.val = DOMAIN data \cup {"seasonNumber"}
        /\ rec.val["seasonNumber"] = season_num(data)

\* An object that came with a seasonNumber and other keys, normalised to a
\* record with another seasonNumber.
C10_Witness ==
    /\ rec.err = "none"
    /\ {"success", "season", "seasonNumber"} \subseteq DOMAIN data
    /\ rec.val["seasonNumber"] # data["seasonNumber"]
    /\ rec.val["success"] = JTrue

(***************************************************************************)
(* The sort of parse_seasons (src/main.py 98-115).                         *)
(***************************************************************************)
\* The length of the run of digits of t that begins at position p (1-based).
RECURSIVE DigitRun(_, _)
DigitRun(t, p) ==
    IF p <= Len(t) /\ IsDigit(t[p]) THEN 1 + DigitRun(t, p + 1) ELSE 0

\* The length of the run of whitespace of t that begins at position p.
RECURSIVE SpaceRun(_, _)
SpaceRun(t, p) ==
    IF p <= Len(t) /\ t[p] \in Whitespace THEN 1 + SpaceRun(t, p + 1) ELSE 0

IsLeap(y) == (y % 4 = 0 /\ y % 100 # 0) \/ y % 400 = 0

DaysIn(y, m) ==
    IF m = 2 THEN (IF IsLeap(y) THEN 29 ELSE 28)
    ELSE IF m \in {4, 6, 9, 11} THEN 30 ELSE 31

\* A field of k digits at position p of t, k being one or two, followed by
\* character sep (or by the end of the text when sep is ""): its value and
\* the position after the separator, or -1 when the text does not match.
FieldOf(t, p, sep, k) ==
    IF k \in {1, 2}
       /\ (IF sep = "" THEN p + k = Len(t) + 1
           ELSE p + k <= Len(t) /\ t[p + k] = sep)
    THEN [v |-> IntBodyValue(SubSeq(t, p, p + k - 1), 0), next |-> p + k + 1]
    ELSE [v |-> -1, next |-> -1]

Field(t, p, sep) == FieldOf(t, p, sep, DigitRun(t, p))

\* The day of the month at position p: one or two digits, or a space and one
\* digit that is not 0; its value and the position after it.
DayOf(t, p, k) ==
    IF p + 1 <= Len(t) /\ t[p] = " " /\ IsDigit(t[p + 1]) /\ t[p + 1] # "0"
       /\ DigitRun(t, p + 1) = 1
    THEN [v |-> DigitValue(t[p + 1]), next |-> p + 2]
    ELSE IF k \in {1, 2}
    THEN [v |-> IntBodyValue(SubSeq(t, p, p + k - 1), 0), next |-> p + k]
    ELSE [v |-> -1, next |-> -1]

\* The date-time of the fields read, when it exists: year 1 at least, the
\* day within the month, the time within the day (seconds below 60).
DateTimeOf(year, mon, day, hour, min, sec) ==
    IF /\ year >= 1
       /\ mon \in 1..12
       /\ day \in 1..31 /\ day <= DaysIn(year, mon)
       /\ hour \in 0..23 /\ min \in 0..59 /\ sec \in 0..59
    THEN Return(<<year, mon, day, hour, min, sec>>)
    ELSE Raise("ValueError")

\* The text from the seconds on (nothing may follow them).
strptime_S(t, year, mon, day, hour, min) ==
    IF min.v < 0 THEN Raise("ValueError")
    ELSE DateTimeOf(year, mon, day, hour, min.v, Field(t, min.next, "").v)

\* The text from the minutes on.
strptime_M(t, year, mon, day, hour) ==
    IF hour.v < 0 THEN Raise("ValueError")
    ELSE strptime_S(t, year, mon, day, hour.v, Field(t, hour.next, ":"))

\* The text from the hours on, after gap whitespace characters at position
\* sp (the space of the format is one or more of them).
strptime_H(t, year, mon, day, sp, gap) ==
    IF gap < 1 THEN Raise("ValueError")
    ELSE strptime_M(t, year, mon, day, Field(t, sp + gap, ":"))

\* The text from the end of the day on.
strptime_d(t, year, mon, day) ==
    IF day.v < 1 THEN Raise("ValueError")
    ELSE strptime_H(t, year, mon, day.v, day.next, SpaceRun(t, day.next))

\* The text from the end of the month on.
strptime_m(t, year, mon) ==
    IF mon.v < 0 THEN Raise("ValueError")
    ELSE strptime_d(t, year, mon.v, DayOf(t, mon.next, DigitRun(t, mon.next)))

\* Line 106: datetime.strptime(s, "%Y-%m-%d %H:%M:%S") on the characters of
\* a str: the date-time <<Y, M, D, h, m, s>>, or ValueError.  %Y is four
\* digits; %m, %d, %H, %M, %S are one or two digits (%d also a space and one
\* digit) within their ranges; the space of the format is one or more
\* whitespace characters; nothing may follow the seconds; the date must
\* exist.
strptime(t) ==
    IF DigitRun(t, 1) >= 4 /\ Len(t) >= 5 /\ t[5] = "-"
    THEN strptime_m(t, IntBodyValue(SubSeq(t, 1, 4), 0), Field(t, 6, "-"))
    ELSE Raise("ValueError")

\* Line 104: datetime.min.
datetime_min == <<1, 1, 1, 0, 0, 0>>

\* Lines 101-108: parse_dt on the value of d.get("startDate").  None, "" and
\* every other falsy value give datetime.min (line 103); strptime raises
\* TypeError on a value that is not a str and ValueError on a str that does
\* not match, and both are caught (line 107).
parse_dt(v) ==
    IF v.t = "str" /\ v.s # <<>>
    THEN LET r == strptime(v.s) IN IF r.err = "none" THEN r.val ELSE datetime_min
    ELSE datetime_min

\* The days from 1970-01-01 to the date y-m-d of the Gregorian calendar.
DaysFromEpoch(y, m, d) ==
    LET yy == IF m <= 2 THEN y - 1 ELSE y
        era == yy \div 400
        yoe == yy - era * 400
        mp == IF m > 2 THEN m - 3 ELSE m + 9
        doy == (153 * mp + 2) \div 5 + d - 1
        doe == yoe * 365 + yoe \div 4 - yoe \div 100 + doy
    IN  era * 146097 + doe - 719468

\* Line 113: datetime.timestamp() of a naive date-time, the local time zone
\* being UTC.  CPython looks one day before the date-time for an earlier
\* local time of the same reading, and raises ValueError ("year 0 is out of
\* range") when that day is before year 1: so it does on datetime.min and
\* on every date-time of 0001-01-01.  (On Windows the call raises OSError
\* for every date-time before 1970.)
timestamp(dt) ==
    IF dt[1] = 1 /\ dt[2] = 1 /\ dt[3] = 1 THEN Raise("ValueError")
    ELSE Return(DaysFromEpoch(dt[1], dt[2], dt[3]) * 86400
                    + dt[4] * 3600 + dt[5] * 60 + dt[6])

\* The key with the start date not negated (oldest first).
sort_key_ascending(d) ==
    Then(timestamp(parse_dt(Get(d, "startDate"))), LAMBDA ts :
    Return(<<IF Get(d, "endDate") # JNull THEN 1 ELSE 0, ts>>))

\* Lines 111-114: the key of a record, False as 0 and True as 1; the
\* exception of timestamp() leaves the lambda.
sort_key(d) ==
    Then(timestamp(parse_dt(Get(d, "startDate"))), LAMBDA ts :
    Return(<<IF Get(d, "endDate") # JNull THEN 1 ELSE 0, 0 - ts>>))

\* The order of Python on the keys (tuples of two numbers).
KeyLess(a, b) == a[1] < b[1] \/ (a[1] = b[1] /\ a[2] < b[2])

\* x put into the sorted list ss after every element whose key is not
\* greater than its own (the sort is stable).
RECURSIVE Insert(_, _)
Insert(ss, x) ==
    IF ss = <<>> THEN <<x>>
    ELSE IF KeyLess(sort_key(x).val, sort_key(Head(ss)).val) THEN <<x>> \o ss
    ELSE <<Head(ss)>> \o Insert(Tail(ss), x)

RECURSIVE StableSort(_, _)
StableSort(todo, done) ==
    IF todo = <<>> THEN done ELSE StableSort(Tail(todo), Insert(done, Head(todo)))

\* Lines 110-115: seasons.sort(key=...).  list.sort computes the key of
\* every element before it compares any: an exception of the key function
\* leaves the call.
sort(ss) ==
    IF \E i \in 1..Len(ss) : sort_key(ss[i]).err # "none"
    THEN Raise("ValueError")
    ELSE Return(StableSort(ss, <<>>))

(***************************************************************************)
(* The documents the upstream page can be: a sequence of items, each a     *)
(* JSON object {"success":true,...} with a season and an optional startDate*)
(* and endDate, or a piece of text that is no object.  The item list is kept   *)
(* beside the text to state what the document holds.                       *)
(***************************************************************************)
SeasonS7 == JStr(<<"S", " ", "7">>)
Season8 == JStr(SeasonLabel(8))
StartJuly == JStr(<<"2", "0", "2", "5", "-", "0", "7", "-", "0", "1", " ", "0", "0", ":", "0", "0", ":", "0", "0">>)
StartAugust == JStr(<<"2", "0", "2", "5", "-", "0", "8", "-", "2", "0", " ", "0", "4", ":", "0", "0", ":", "0", "0">>)
EndSeptember == JStr(<<"2", "0", "2", "5", "-", "0", "9", "-", "0", "1", " ", "0", "0", ":", "0", "0", ":", "0", "0">>)

\* The text of a JSON value.
ValueText(v) ==
    IF v.t = "str" THEN <<"\"">> \o v.s \o <<"\"">>
    ELSE IF v.t = "num" THEN Str(v.n)
    ELSE IF v.t = "bool" THEN <<"t", "r", "u", "e">>
    ELSE <<"n", "u", "l", "l">>

\* The text of the member "key":value, with its comma; nothing for an absent
\* key.
MemberText(key, v) ==
    IF v = Absent THEN <<>>
    ELSE <<",", "\"">> \o key \o <<"\"", ":">> \o ValueText(v)

\* The text of the object an item stands for.
ObjectText(it) ==
    LitAnchor \o <<":">> \o <<"t", "r", "u", "e">>
        \o MemberText(<<"s", "e", "a", "s", "o", "n">>, it.season)
        \o MemberText(<<"s", "t", "a", "r", "t", "D", "a", "t", "e">>, it.startDate)
        \o MemberText(<<"e", "n", "d", "D", "a", "t", "e">>, it.endDate)
        \o <<"}">>

\* The object json.loads gives for that text.
ObjectOf(it) ==
    Object(<< <<"success", JTrue>>, <<"season", it.season>>,
              <<"startDate", it.startDate>>, <<"endDate", it.endDate>> >>)

\* The objects of the pages: a season whose label is not "Season 7" but whose
\* last token is 7, or "Season 8"; no startDate or one of two; an endDate
\* that is null or a date, and one object with no endDate key at all.
ObjectItems ==
    {it \in [kind : {"object"},
             season : {SeasonS7, Season8},
             startDate : {Absent, StartJuly, StartAugust},
             endDate : {Absent, JNull, EndSeptember}] :
        it.endDate = Absent =>
            it.season = Season8 /\ it.startDate = StartJuly}

\* Text that is no object: an anchor that nothing closes, a closing brace,
\* and an escaped anchor closed after a \u that has no digits.
OtherItems ==
    {[kind |-> k, season |-> Absent, startDate |-> Absent, endDate |-> Absent] :
        k \in {"anchor", "close", "badescape"}}

ItemText(it) ==
    IF it.kind = "object" THEN ObjectText(it)
    ELSE IF it.kind = "anchor" THEN LitAnchor
    ELSE IF it.kind = "close" THEN <<"}">>
    ELSE EscAnchor \o <<"\\", "u", "}">>

\* The page: its items, each followed by a line break.
RECURSIVE PageText(_)
PageText(items) ==
    IF items = <<>> THEN <<>>
    ELSE ItemText(Head(items)) \o <<"\n">> \o PageText(Tail(items))

Pages == SeqsUpTo(ObjectItems \cup OtherItems, MaxItems)

\* Line 85: json.loads(s) on a block cut from a page.  The text of an object
\* item parses to its object.  Every other block the pages give is an
\* object's text with text put in before its closing brace, or an anchor and
\* a brace, which is no JSON: JSONDecodeError.
json_loads(s) ==
    IF \E it \in ObjectItems : ObjectText(it) = s
    THEN Return(ObjectOf(CHOOSE it \in ObjectItems : ObjectText(it) = s))
    ELSE Raise("JSONDecodeError")

\* Lines 84-96: the loop over the blocks; the exception of json.loads leaves
\* the function.
RECURSIVE parse_blocks(_, _)
parse_blocks(json_str_list, ss) ==
    IF json_str_list = <<>> THEN Return(ss)
    ELSE Then(json_loads(Head(json_str_list)), LAMBDA parsed :
         parse_blocks(Tail(json_str_list), Append(ss, normalize(parsed))))

\* Lines 77-116.
parse_seasons(raw_html) ==
    Then(cut_all_json_blocks(raw_html), LAMBDA json_str_list :
    Then(parse_blocks(json_str_list, <<>>), LAMBDA ss :
    sort(ss)))

(***************************************************************************)
(* The request handlers (src/main.py 118-156).                             *)
(***************************************************************************)
\* The exceptions of the model that are ValueError or a subclass of it
\* (json.JSONDecodeError and UnicodeDecodeError are).
ValueErrors ==
    {"ValueError", "UnbalancedBraces", "NoBlocksFound", "UnicodeDecodeError",
     "JSONDecodeError"}

\* A response: the status, and the records of its JSON body.
Response(status, body) == [status |-> status, body |-> body]

\* The except clauses of lines 124-127 (153-156; 135-138 with IndexError):
\* httpx.HTTPError gives 502, the listed exceptions 500, and an exception no
\* clause names leaves the handler, which the framework answers with 500.
OnException(e, caught) ==
    IF e = "HTTPError" THEN Response(502, <<>>)
    ELSE IF e \in caught THEN Response(500, <<>>)
    ELSE Response(500, <<>>)

\* Lines 145-152 with the numeric test left out.
by_label_only(ss, n) ==
    LET hits == {i \in 1..Len(ss) :
                    Get(ss[i], "season") = JStr(SeasonLabel(n))}
    IN  IF hits = {} THEN Response(404, <<>>)
        ELSE Response(200, <<ss[MinOf(hits)]>>)

\* Lines 145-152: the loop over the sorted records; the first record that
\* passes either test is returned, and HTTPException(404), which no except
\* clause names, is raised after the loop.
RECURSIVE find_season(_, _)
find_season(ss, n) ==
    IF ss = <<>> THEN Response(404, <<>>)
    ELSE LET s == Head(ss)
         IN  IF Get(s, "seasonNumber") = JNum(n)
             THEN Response(200, <<s>>)
             ELSE IF Get(s, "season") = JStr(SeasonLabel(n))
             THEN Response(200, <<s>>)
             ELSE find_season(Tail(ss), n)

\* Lines 119-127, after fetch_html returned or raised: fetched is its
\* outcome, parsed the outcome of parse_seasons (pending when it was not
\* called).
leaderboard_all(fetched, parsed) ==
    IF fetched.err # "none" THEN OnException(fetched.err, ValueErrors)
    ELSE IF parsed.err # "none" THEN OnException(parsed.err, ValueErrors)
    ELSE Response(200, parsed.val)

\* Lines 130-138; seasons[0] raises IndexError on an empty list.
leaderboard_latest(fetched, parsed) ==
    IF fetched.err # "none"
    THEN OnException(fetched.err, ValueErrors \cup {"IndexError"})
    ELSE IF parsed.err # "none"
    THEN OnException(parsed.err, ValueErrors \cup {"IndexError"})
    ELSE IF parsed.val = <<>>
    THEN OnException("IndexError", ValueErrors \cup {"IndexError"})
    ELSE Response(200, <<parsed.val[1]>>)

\* Lines 141-156.
leaderboard_by_season(fetched, parsed, n) ==
    IF fetched.err # "none" THEN OnException(fetched.err, ValueErrors)
    ELSE IF parsed.err # "none" THEN OnException(parsed.err, ValueErrors)
    ELSE find_season(parsed.val, n)

Routes == {"all", "latest", "season"}

SeasonNumbers == {7, 8}

\* Lines 121-122 (132-133, 143-144): parse_seasons is called only when
\* fetch_html returned.
Parse(fetched) ==
    IF fetched.err = "none" THEN parse_seasons(fetched.val) ELSE Pending

\* The handler of the route, from the outcome of its fetch on.
Handle(r, n, fetched, parsed) ==
    IF r = "all" THEN leaderboard_all(fetched, parsed)
    ELSE IF r = "latest" THEN leaderboard_latest(fetched, parsed)
    ELSE leaderboard_by_season(fetched, parsed, n)

(***************************************************************************)
(* Specification Spec: one request.  The handler sends its GET and awaits  *)
(* (line 15); the upstream answers with a page or the GET fails; the rest  *)
(* of the handler runs without another suspension.                         *)
(***************************************************************************)
NoResponse == Response(0, <<>>)

Init ==
    /\ pc = "idle"
    /\ route = "none"
    /\ season_no = 0
    /\ fetches = 0
    /\ page = <<>>
    /\ html = Pending
    /\ seasons = Pending
    /\ response = NoResponse
    /\ IdleCut
    /\ IdleBlocks
    /\ IdleNorm

\* A request arrives: the handler runs to the await of line 15.
Request ==
    /\ pc = "idle"
    /\ \E r \in Routes :
          /\ route' = r
          /\ season_no' \in (IF r = "season" THEN SeasonNumbers ELSE {0})
    /\ fetches' = fetches + 1
    /\ pc' = "fetching"
    /\ UNCHANGED <<page, html, seasons, response, cutVars, blockVars, normVars>>

\* The GET returns a page (lines 16-17) and the handler runs to its end.
FetchReturns ==
    /\ pc = "fetching"
    /\ \E items \in Pages :
          /\ page' = items
          /\ html' = Return(PageText(items))
    /\ seasons' = Parse(html')
    /\ response' = Handle(route, season_no, html', seasons')
    /\ pc' = "done"
    /\ UNCHANGED <<route, season_no, fetches, cutVars, blockVars, normVars>>

\* The GET fails: a network error, a timeout, or raise_for_status on a
\* status that is not a success (all httpx.HTTPError).
FetchRaises ==
    /\ pc = "fetching"
    /\ html' = Raise("HTTPError")
    /\ seasons' = Parse(html')
    /\ response' = Handle(route, season_no, html', seasons')
    /\ pc' = "done"
    /\ UNCHANGED <<route, season_no, fetches, page, cutVars, blockVars, normVars>>

Next == Request \/ FetchReturns \/ FetchRaises

Spec == Init /\ [][Next]_vars

(***************************************************************************)
(* Properties of the sorted sequence (src/main.py 98-116, 129-138).        *)
(***************************************************************************)
\* A record is in progress when its endDate is absent or null.
InProgress(d) == Get(d, "endDate") = JNull

\* The start of a record as a date-time <<Y, M, D, h, m, s>>.
StartOf(d) == parse_dt(Get(d, "startDate"))

\* a is not later than b.
RECURSIVE DateLeq(_, _)
DateLeq(a, b) ==
    IF a = <<>> THEN TRUE
    ELSE IF Head(a) # Head(b) THEN Head(a) < Head(b)
    ELSE DateLeq(Tail(a), Tail(b))

\* The page holds an object that is in progress.
HoldsInProgress(items) ==
    \E k \in 1..Len(items) :
       items[k].kind = "object" /\ items[k].endDate \in {Absent, JNull}

\* C4: in every sequence parse_seasons returns, no record that has an endDate
\* precedes a record whose endDate is absent or null, and of two records of
\* the same group the earlier one in the sequence does not start before the
\* later one; and /leaderboard/latest, when parse_seasons returned on a page
\* that holds an in-progress object, answers with an in-progress record.
C4_InProgressFirstThenNewest ==
    (pc = "done" /\ seasons.err = "none") =>
        /\ \A i, j \in 1..Len(seasons.val) :
              i < j =>
                 /\ InProgress(seasons.val[j]) => InProgress(seasons.val[i])
                 /\ InProgress(seasons.val[i]) = InProgress(seasons.val[j])
                       => DateLeq(StartOf(seasons.val[j]), StartOf(seasons.val[i]))
        /\ (route = "latest" /\ HoldsInProgress(page)) =>
              /\ response.status = 200
              /\ Len(response.body) = 1
              /\ InProgress(response.body[1])

\* /leaderboard/latest answered from a page whose first object has ended and
\* starts in August and whose second object is in progress and starts in
\* July: the in-progress record is the one returned.
C4_Witness ==
    /\ pc = "done"
    /\ route = "latest"
    /\ Len(page) = 2
    /\ page[1].kind = "object" /\ page[1].endDate = EndSeptember
    /\ page[1].startDate = StartAugust
    /\ page[2].kind = "object" /\ page[2].endDate = JNull
    /\ page[2].startDate = StartJuly
    /\ response.status = 200
    /\ InProgress(response.body[1])
    /\ StartOf(response.body[1]) = <<2025, 7, 1, 0, 0, 0>>

\* The startDate of a record is missing, null, or not in the format.
NoStart(d) ==
    LET v == Get(d, "startDate")
    IN  v.t # "str" \/ strptime(v.s).err # "none"

\* Every item of the page is a well-formed object, and there is one.
AllObjects(items) ==
    /\ items # <<>>
    /\ \A k \in 1..Len(items) : items[k].kind = "object"

\* C5: a request whose page holds only well-formed objects succeeds also when
\* an object has no parseable startDate: parse_seasons returns, the status is
\* not 500, and in the returned sequence a record without a parseable
\* startDate comes after every record of its group that has one.
C5_MissingStartDateHandled ==
    (pc = "done" /\ html.err = "none" /\ AllObjects(page)) =>
        /\ seasons.err = "none"
        /\ response.status \in {200, 404}
        /\ \A i, j \in 1..Len(seasons.val) :
              (/\ i < j
               /\ InProgress(seasons.val[i]) = InProgress(seasons.val[j])
               /\ NoStart(seasons.val[i]))
                  => NoStart(seasons.val[j])

(***************************************************************************)
(* Properties of the lookup by season number (src/main.py 140-156).        *)
(***************************************************************************)
\* The lookup in two passes: the first record whose seasonNumber is n; when
\* there is none, the first record whose label is "Season n"; when there is
\* none either, 404.
NumericFirst(ss, n) ==
    LET numeric == {i \in 1..Len(ss) : Get(ss[i], "seasonNumber") = JNum(n)}
        label == {i \in 1..Len(ss) : Get(ss[i], "season") = JStr(SeasonLabel(n))}
    IN  IF numeric # {} THEN Response(200, <<ss[MinOf(numeric)]>>)
        ELSE IF label # {} THEN Response(200, <<ss[MinOf(label)]>>)
        ELSE Response(404, <<>>)

\* C6: when parse_seasons returned, /leaderboard/season/{n} answers as the
\* two-pass lookup over the sorted sequence does: the first record whose
\* seasonNumber is n, else the first record whose label is "Season n", and
\* 404 exactly when no record passes either test.
C6_LookupIsNumericFirst ==
    (pc = "done" /\ route = "season" /\ seasons.err = "none") =>
        /\ response = NumericFirst(seasons.val, season_no)
        /\ response.status = 404 <=>
              \A i \in 1..Len(seasons.val) :
                 /\ Get(seasons.val[i], "seasonNumber") # JNum(season_no)
                 /\ Get(seasons.val[i], "season") # JStr(SeasonLabel(season_no))

\* Season 7 looked up in a sequence whose first record is of season 8: the
\* record returned is the second one, which matches by its number and not by
\* its label.
C6_Witness ==
    /\ pc = "done"
    /\ route = "season"
    /\ season_no = 7
    /\ seasons.err = "none"
    /\ Len(seasons.val) = 2
    /\ Get(seasons.val[1], "seasonNumber") = JNum(8)
    /\ response = Response(200, <<seasons.val[2]>>)
    /\ Get(seasons.val[2], "season") # JStr(SeasonLabel(7))

(***************************************************************************)
(* The outcome of a request (src/main.py 118-156).                         *)
(***************************************************************************)
\* The page has a block that cannot be extracted or decoded, or no block:
\* an anchor that nothing closes or that closes around other text, an
\* escaped block with a malformed escape, or no anchor at all.
Defective(items) ==
    \/ \E k \in 1..Len(items) : items[k].kind \in {"anchor", "badescape"}
    \/ \A k \in 1..Len(items) : items[k].kind # "object"

\* C7: a request makes one fetch and parses only after it; when it is done,
\* a failed fetch gave 502 without parsing, a page with a block that cannot
\* be extracted or decoded (or with none) gave 500 and no record, and every
\* other page gave 200, or 404 on the season route.
C7_OneOutcomePerRequest ==
    /\ pc # "done" => seasons = Pending /\ response = NoResponse
    /\ pc = "done" =>
          /\ fetches = 1
          /\ html.err # "none" =>
                response = Response(502, <<>>) /\ seasons = Pending
          /\ (html.err = "none" /\ Defective(page)) =>
                response = Response(500, <<>>)
          /\ (html.err = "none" /\ ~Defective(page)) =>
                \/ response.status = 200 /\ seasons.err = "none"
                \/ response.status = 404 /\ route = "season"
====
